---- MODULE Spec2Model ----
(***************************************************************************)
(* A model of debruijn.py: k-mer counting, de Bruijn graph construction,   *)
(* best-path selection, bubble and tip simplification, contig extraction.  *)
(*                                                                         *)
(* A read, a k-mer and a graph node of the assembly pipeline are sequences *)
(* of one-character strings.  A networkx DiGraph is the record             *)
(*   [nodes |-> the nodes in insertion order,                              *)
(*    edges |-> the edges <<u, v, weight>> in insertion order]             *)
(* which fixes the iteration order of graph.nodes, graph.successors and    *)
(* graph.predecessors exactly as the insertion-ordered dicts of networkx   *)
(* do.  A Python dict is a sequence of <<key, value>> in insertion order.  *)
(***************************************************************************)
EXTENDS Integers, Sequences, FiniteSets, TLC

VARIABLES pc, err, reads, kmer_size, kmer_dict, graph, contigs,
          g0, op, call, rounds

vars == <<pc, err, reads, kmer_size, kmer_dict, graph, contigs,
          g0, op, call, rounds>>

\* ------------------------------------------------------------------ bounds
MaxReads == 2
MaxReadLen == 4
MaxK == 3
MaxNodes == 4
MaxEdges == 4
MaxWeight == 2
\* Stands in for sys.setrecursionlimit(10000): the depth at which the
\* recursion of simplify_bubbles ends in RecursionError.
MaxDepth == 6

Alphabet == {"A", "C"}

\* ------------------------------------------------------- sequence helpers
RECURSIVE SeqSum(_)
SeqSum(s) == IF s = <<>> THEN 0 ELSE Head(s) + SeqSum(Tail(s))

RECURSIVE Flatten(_)
Flatten(ss) == IF ss = <<>> THEN <<>> ELSE Head(ss) \o Flatten(Tail(ss))

Range(s) == {s[i] : i \in DOMAIN s}

\* ------------------------------------------------------------ k-mer counter
\* read[idx:idx+kmer_size] for idx in range(len(read)-kmer_size+1)
cut_kmer(read, k) ==
  [i \in 1..(IF Len(read) - k + 1 > 0 THEN Len(read) - k + 1 ELSE 0)
     |-> SubSeq(read, i, i + k - 1)]

\* Counter(iterable): keys in order of first occurrence, each with its tally
RECURSIVE CounterAdd(_, _)
CounterAdd(d, x) ==
  IF d = <<>> THEN << <<x, 1>> >>
  ELSE IF Head(d)[1] = x THEN << <<x, Head(d)[2] + 1>> >> \o Tail(d)
  ELSE <<Head(d)>> \o CounterAdd(Tail(d), x)

RECURSIVE Counter(_)
Counter(xs) ==
  IF xs = <<>> THEN <<>>
  ELSE CounterAdd(Counter(SubSeq(xs, 1, Len(xs) - 1)), xs[Len(xs)])

DictKeys(d) == {d[i][1] : i \in DOMAIN d}
DictGet(d, x) == IF x \in DictKeys(d) THEN (CHOOSE e \in Range(d) : e[1] = x)[2] ELSE 0

\* kmer_dict += kmer_count on Counters: sums per key, keeps positive counts,
\* keys of the left operand first
CounterIAdd(d, e) ==
  [i \in DOMAIN d |-> <<d[i][1], d[i][2] + DictGet(e, d[i][1])>>]
    \o SelectSeq(e, LAMBDA x : x[1] \notin DictKeys(d))

\* The body of the loop "for read in read_gen": kmer_count is rebound on
\* every iteration and kmer_dict is not touched inside the loop, so after
\* the loop kmer_count is the Counter of the last read.
LastKmerCount(rs, k) == Counter(cut_kmer(rs[Len(rs)], k))

\* build_kmer_dict: the statement "kmer_dict += kmer_count" stands after the
\* loop (one indentation level left of the loop body).  With no read at all
\* kmer_count is unbound there (UnboundLocalError).
build_kmer_dict(rs, k) ==
  IF rs = <<>> THEN [err |-> "UnboundLocalError", dict |-> <<>>]
  ELSE [err |-> "", dict |-> CounterIAdd(<<>>, LastKmerCount(rs, k))]

\* ------------------------------------------------------------------- graph
EmptyGraph == [nodes |-> <<>>, edges |-> <<>>]

NodeSet(g) == Range(g.nodes)
EdgeSet(g) == {<<g.edges[i][1], g.edges[i][2]>> : i \in DOMAIN g.edges}
HasEdge(g, u, v) == <<u, v>> \in EdgeSet(g)
Weight(g, u, v) == (CHOOSE e \in Range(g.edges) : e[1] = u /\ e[2] = v)[3]

\* graph.successors(n), graph.predecessors(n): in edge insertion order
Successors(g, n) ==
  LET es == SelectSeq(g.edges, LAMBDA e : e[1] = n) IN [i \in DOMAIN es |-> es[i][2]]
Predecessors(g, n) ==
  LET es == SelectSeq(g.edges, LAMBDA e : e[2] = n) IN [i \in DOMAIN es |-> es[i][1]]

\* digraph.add_edge(u, v, weight=w): u then v become nodes if they are not,
\* an existing edge keeps its place and takes the new weight
add_edge(g, u, v, w) ==
  LET n1 == IF u \in NodeSet(g) THEN g.nodes ELSE Append(g.nodes, u)
      n2 == IF v \in Range(n1) THEN n1 ELSE Append(n1, v)
  IN [nodes |-> n2,
      edges |-> IF HasEdge(g, u, v)
                THEN [i \in DOMAIN g.edges |->
                        IF g.edges[i][1] = u /\ g.edges[i][2] = v
                        THEN <<u, v, w>> ELSE g.edges[i]]
                ELSE Append(g.edges, <<u, v, w>>)]

\* graph.remove_nodes_from(ns): absent nodes are skipped silently
remove_nodes_from(g, ns) ==
  [nodes |-> SelectSeq(g.nodes, LAMBDA n : n \notin ns),
   edges |-> SelectSeq(g.edges, LAMBDA e : e[1] \notin ns /\ e[2] \notin ns)]

\* a faulty loop body: prefix and suffix exchanged
MutBuildEdge(g, kmer, occurrence) ==
  add_edge(g, SubSeq(kmer, 2, Len(kmer)), SubSeq(kmer, 1, Len(kmer) - 1), occurrence)

\* the loop body of build_graph: prefix = kmer[:-1], suffix = kmer[1:]
BuildEdge(g, kmer, occurrence) ==
  add_edge(g, SubSeq(kmer, 1, Len(kmer) - 1), SubSeq(kmer, 2, Len(kmer)), occurrence)

RECURSIVE BuildFrom(_, _)
BuildFrom(g, d) ==
  IF d = <<>> THEN g ELSE BuildFrom(BuildEdge(g, Head(d)[1], Head(d)[2]), Tail(d))

build_graph(d) == BuildFrom(EmptyGraph, d)

\* ------------------------------------------------------------ path queries
\* nx.all_simple_paths(g, s, t) for s # t: depth-first in successor order; a
\* child equal to the target yields the path and is not expanded further
RECURSIVE PathsFrom(_, _, _)
PathsFrom(g, prefix, t) ==
  LET cs == Successors(g, prefix[Len(prefix)])
  IN Flatten([i \in DOMAIN cs |->
       IF cs[i] \in Range(prefix) THEN <<>>
       ELSE IF cs[i] = t THEN <<Append(prefix, t)>>
       ELSE PathsFrom(g, Append(prefix, cs[i]), t)])

all_simple_paths(g, s, t) == IF s = t THEN <<>> ELSE PathsFrom(g, <<s>>, t)

RECURSIVE ReachFrom(_, _)
ReachFrom(g, S) ==
  LET T == S \cup {e[2] : e \in {x \in Range(g.edges) : x[1] \in S}}
  IN IF T = S THEN S ELSE ReachFrom(g, T)

has_path(g, s, t) == t \in ReachFrom(g, {s})

\* nx.ancestors(g, v) with v itself added, as lowest_common_ancestor uses it
RECURSIVE ReachBack(_, _)
ReachBack(g, S) ==
  LET T == S \cup {e[1] : e \in {x \in Range(g.edges) : x[2] \in S}}
  IN IF T = S THEN S ELSE ReachBack(g, T)

AncestorsOrSelf(g, v) == ReachBack(g, {v})

\* ------------------------------------------------------------------ contigs
get_starting_nodes(g) == SelectSeq(g.nodes, LAMBDA n : Predecessors(g, n) = <<>>)
get_sink_nodes(g) == SelectSeq(g.nodes, LAMBDA n : Successors(g, n) = <<>>)

\* a faulty contig: the first character of each next node, not the last
MutContigOf(path) ==
  path[1] \o [i \in 1..(Len(path) - 1) |-> path[i + 1][1]]

\* contig = path[0]; for node in path[1:]: contig += node[-1]
ContigOf(path) ==
  path[1] \o [i \in 1..(Len(path) - 1) |-> path[i + 1][Len(path[i + 1])]]

\* the two nested loops of get_contigs over starting and ending nodes
get_contigs(g, starting, ending) ==
  Flatten([i \in DOMAIN starting |->
    Flatten([j \in DOMAIN ending |->
      IF has_path(g, starting[i], ending[j])
      THEN LET ps == all_simple_paths(g, starting[i], ending[j])
           IN [p \in DOMAIN ps |-> <<ContigOf(ps[p]), Len(ContigOf(ps[p]))>>]
      ELSE <<>>])])

\* ----------------------------------------------------- assembly pipeline
Strs(n) == UNION {[1..m -> Alphabet] : m \in 0..n}
SeqsOf(S, n) == UNION {[1..m -> S] : m \in 0..n}

NoCall == [kind |-> "none"]

InitCommon ==
  /\ pc = "start" /\ err = ""
  /\ kmer_dict = <<>> /\ graph = EmptyGraph /\ contigs = <<>>
  /\ g0 = EmptyGraph /\ op = "none" /\ call = NoCall /\ rounds = 0

\* one read S, as the contig round trip takes it
InitAsm ==
  /\ InitCommon
  /\ reads \in {<<s>> : s \in Strs(MaxReadLen)}
  /\ kmer_size \in 1..MaxK

\* any sequence of reads
InitCount ==
  /\ InitCommon
  /\ reads \in SeqsOf(Strs(MaxReadLen), MaxReads)
  /\ kmer_size \in 1..MaxK

BuildKmerDict ==
  /\ pc = "start"
  /\ LET r == build_kmer_dict(reads, kmer_size)
     IN /\ err' = r.err
        /\ kmer_dict' = r.dict
        /\ pc' = IF r.err = "" THEN "counted" ELSE "error"
  /\ UNCHANGED <<reads, kmer_size, graph, contigs, g0, op, call, rounds>>

BuildGraph ==
  /\ pc = "counted"
  /\ graph' = build_graph(kmer_dict)
  /\ pc' = "graph"
  /\ UNCHANGED <<err, reads, kmer_size, kmer_dict, contigs, g0, op, call, rounds>>

GetContigs ==
  /\ pc = "graph"
  /\ contigs' = get_contigs(graph, get_starting_nodes(graph), get_sink_nodes(graph))
  /\ pc' = "contigs"
  /\ UNCHANGED <<err, reads, kmer_size, kmer_dict, graph, g0, op, call, rounds>>

NextAsm == BuildKmerDict \/ BuildGraph \/ GetContigs

SpecAsm == InitAsm /\ [][NextAsm]_vars
SpecCount == InitCount /\ [][NextAsm]_vars

\* ---------------------------------------------------------- path scoring
\* A weight average is the exact fraction <<sum, count>>.  Python holds it as
\* a float; on the small integers of the model two floats are equal exactly
\* when the fractions are, and statistics.stdev computes on exact fractions.
RatEq(a, b) == a[1] * b[2] = b[1] * a[2]
RatLt(a, b) == a[1] * b[2] < b[1] * a[2]

\* statistics.stdev(xs) > 0 for two or more values: they are not all equal
StdevPositive(xs) == \E i, j \in DOMAIN xs : ~RatEq(xs[i], xs[j])

\* xs.index(max(xs)): the first index of a maximal value
IndexOfMax(xs) ==
  CHOOSE i \in DOMAIN xs :
    /\ \A j \in DOMAIN xs : ~RatLt(xs[i], xs[j])
    /\ \A j \in 1..(i - 1) : RatLt(xs[j], xs[i])

AsRats(ns) == [i \in DOMAIN ns |-> <<ns[i], 1>>]

\* solve_bubble: [graph[u][v]['weight'] for u, v in zip(path[:-1], path[1:])]
EdgeWeights(g, path) ==
  [i \in 1..(Len(path) - 1) |-> Weight(g, path[i], path[i + 1])]

\* solve_bubble: sum(edge_weights) / len(edge_weights)
PathAvg(g, path) == <<SeqSum(EdgeWeights(g, path)), Len(path) - 1>>

\* graph.subgraph(path).edges(data=True): every edge of the graph between two
\* nodes of the path, chords included
SubgraphWeights(g, path) ==
  LET es == SelectSeq(g.edges, LAMBDA e : e[1] \in Range(path) /\ e[2] \in Range(path))
  IN [i \in DOMAIN es |-> es[i][3]]

\* path_average_weight: statistics.mean over the subgraph's edges
path_average_weight(g, path) ==
  <<SeqSum(SubgraphWeights(g, path)), Len(SubgraphWeights(g, path))>>

\* ---------------------------------------------------------- path removal
\* a faulty slicing: the last node is never stripped
MutStripPath(path, delete_entry_node, delete_sink_node) ==
  IF delete_entry_node THEN path ELSE Tail(path)

\* remove_paths, per path: path[1:] unless delete_entry_node, then path[:-1]
\* unless delete_sink_node (both slices of an empty list are empty)
StripPath(path, delete_entry_node, delete_sink_node) ==
  LET p1 == IF ~delete_entry_node /\ path # <<>> THEN Tail(path) ELSE path
  IN IF ~delete_sink_node /\ p1 # <<>> THEN SubSeq(p1, 1, Len(p1) - 1) ELSE p1

RECURSIVE remove_paths(_, _, _, _)
remove_paths(g, path_list, delete_entry_node, delete_sink_node) ==
  IF path_list = <<>> THEN g
  ELSE remove_paths(
         remove_nodes_from(g, Range(StripPath(Head(path_list), delete_entry_node, delete_sink_node))),
         Tail(path_list), delete_entry_node, delete_sink_node)

\* ------------------------------------------------------ best-path selector
\* a faulty choice: the lengths are compared before the weights
MutBestPathChoice(path_length, weight_avg_list, r) ==
  IF StdevPositive(AsRats(path_length))
  THEN [index |-> IndexOfMax(AsRats(path_length)), tier |-> "length"]
  ELSE IF StdevPositive(weight_avg_list)
  THEN [index |-> IndexOfMax(weight_avg_list), tier |-> "weight"]
  ELSE [index |-> r, tier |-> "random"]

\* select_best_path, the choice of best_path_index for two or more paths
\* (indices are 1-based here) and the branch that made it; r is the value
\* random.randint(0, len(path_list) - 1) returns, plus one
BestPathChoice(path_length, weight_avg_list, r) ==
  IF StdevPositive(weight_avg_list)
  THEN [index |-> IndexOfMax(weight_avg_list), tier |-> "weight"]
  ELSE IF StdevPositive(AsRats(path_length))
  THEN [index |-> IndexOfMax(AsRats(path_length)), tier |-> "length"]
  ELSE [index |-> r, tier |-> "random"]

BestPathIndex(path_length, weight_avg_list, r) ==
  BestPathChoice(path_length, weight_avg_list, r).index

\* paths_to_remove = [path for i, path in enumerate(path_list) if i != best]
PathsToRemove(path_list, best) ==
  LET idx == SelectSeq([i \in DOMAIN path_list |-> i], LAMBDA i : i # best)
  IN [i \in DOMAIN idx |-> path_list[idx[i]]]

\* select_best_path for a non-empty path_list (statistics.stdev raises on an
\* empty one; no caller in the model passes one)
select_best_path(g, path_list, path_length, weight_avg_list, delete_entry_node, delete_sink_node, r) ==
  IF Len(path_list) = 1 THEN g
  ELSE remove_paths(g, PathsToRemove(path_list, BestPathIndex(path_length, weight_avg_list, r)),
                    delete_entry_node, delete_sink_node)

PathLengths(paths) == [i \in DOMAIN paths |-> Len(paths[i])]
PathAvgs(g, paths) == [i \in DOMAIN paths |-> PathAvg(g, paths[i])]

\* ----------------------------------------------------------------- bubbles
\* solve_bubble(graph, ancestor_node, descendant_node)
solve_bubble(g, ancestor_node, descendant_node, r) ==
  LET paths == all_simple_paths(g, ancestor_node, descendant_node)
  IN select_best_path(g, paths, PathLengths(paths), PathAvgs(g, paths), FALSE, FALSE, r)

\* nx.lowest_common_ancestor(g, v, w) on a directed acyclic graph: a common
\* ancestor (v and w count as their own ancestors) none of whose successors
\* is a common ancestor.  Which of several networkx returns depends on the
\* iteration order of a Python set of strings, so every one of them is a
\* possible result; the empty set stands for the result None.
LCASet(g, v, w) ==
  LET common == AncestorsOrSelf(g, v) \cap AncestorsOrSelf(g, w)
  IN {c \in common : \A s \in Range(Successors(g, c)) : s \notin common}

\* simplify_bubbles, the scan: the pairs i < j of predecessors of noeud
\* whose lowest common ancestor is not None
BubblePairs(g, noeud) ==
  LET ps == Predecessors(g, noeud)
  IN {ij \in (DOMAIN ps) \X (DOMAIN ps) :
        ij[1] < ij[2] /\ LCASet(g, ps[ij[1]], ps[ij[2]]) # {}}

FirstPair(S) ==
  CHOOSE ij \in S : \A kl \in S : ij[1] < kl[1] \/ (ij[1] = kl[1] /\ ij[2] <= kl[2])

BubbleIndices(g) ==
  {k \in DOMAIN g.nodes :
     Len(Predecessors(g, g.nodes[k])) > 1 /\ BubblePairs(g, g.nodes[k]) # {}}

MinOf(S) == CHOOSE x \in S : \A y \in S : x <= y

BubbleAt(g, noeud, ps, ij) ==
  [found |-> TRUE, noeud |-> noeud, ancestors |-> LCASet(g, ps[ij[1]], ps[ij[2]])]

FirstBubble(g, indices) ==
  IF indices = {} THEN [found |-> FALSE]
  ELSE BubbleAt(g, g.nodes[MinOf(indices)], Predecessors(g, g.nodes[MinOf(indices)]),
                FirstPair(BubblePairs(g, g.nodes[MinOf(indices)])))

\* the first bubble the three nested loops of simplify_bubbles stop at
FindBubble(g) == FirstBubble(g, BubbleIndices(g))

\* -------------------------------------------------------------------- tips
\* What a call returns or raises; the graph is mutated in place, so a raised
\* exception leaves the removals made so far.
Ok(g) == [graph |-> g, err |-> ""]
Fail(g, e) == [graph |-> g, err |-> e]

\* itertools.combinations(xs, 2), in its order
Combinations2(xs) ==
  Flatten([i \in DOMAIN xs |-> [j \in 1..(Len(xs) - i) |-> <<xs[i], xs[i + j]>>]])

\* solve_entry_tips: sum(d['weight'] for u, v, d in graph.subgraph(path).edges)
PathSums(g, paths) == [i \in DOMAIN paths |-> <<SeqSum(SubgraphWeights(g, paths[i])), 1>>]

\* solve_entry_tips, the loop over combinations(predecessors, 2) for one node.
\* lowest_common_ancestor raises NodeNotFound for a node no longer in the
\* graph; "if common_ancestor:" holds for every node found (a non-empty string).
RECURSIVE EntryTipsPairs(_, _, _)
EntryTipsPairs(g, node, pairs) ==
  IF pairs = <<>> THEN {Ok(g)}
  ELSE LET pred1 == Head(pairs)[1]
           pred2 == Head(pairs)[2]
       IN IF pred1 \notin NodeSet(g) \/ pred2 \notin NodeSet(g)
          THEN {Fail(g, "NodeNotFound")}
          ELSE IF LCASet(g, pred1, pred2) = {}
          THEN EntryTipsPairs(g, node, Tail(pairs))
          ELSE UNION {
            LET paths == all_simple_paths(g, common_ancestor, node)
            IN IF Len(paths) > 1
               THEN UNION {
                 EntryTipsPairs(
                   select_best_path(g, paths, PathLengths(paths), PathSums(g, paths), TRUE, FALSE, r),
                   node, Tail(pairs)) : r \in 1..Len(paths)}
               ELSE EntryTipsPairs(g, node, Tail(pairs))
            : common_ancestor \in LCASet(g, pred1, pred2)}

\* solve_entry_tips, the loop over starting_nodes; graph.predecessors raises
\* NetworkXError for a node that is not in the graph
RECURSIVE EntryTipsNodes(_, _)
EntryTipsNodes(g, starting_nodes) ==
  IF starting_nodes = <<>> THEN {Ok(g)}
  ELSE LET node == Head(starting_nodes)
       IN IF node \notin NodeSet(g) THEN {Fail(g, "NetworkXError")}
          ELSE IF Len(Predecessors(g, node)) > 1
          THEN UNION {
            IF o.err # "" THEN {o} ELSE EntryTipsNodes(o.graph, Tail(starting_nodes))
            : o \in EntryTipsPairs(g, node, Combinations2(Predecessors(g, node)))}
          ELSE EntryTipsNodes(g, Tail(starting_nodes))

solve_entry_tips(g, starting_nodes) == EntryTipsNodes(g, starting_nodes)

PathSubgraphAvgs(g, paths) == [i \in DOMAIN paths |-> path_average_weight(g, paths[i])]

\* solve_out_tips, the loop "for end_node in ending_nodes" for one noeud;
\* target is liste_successeurs[0], fixed before the loop.  has_path and
\* all_simple_paths raise NodeNotFound for a node no longer in the graph.
RECURSIVE OutTipsEnds(_, _, _, _)
OutTipsEnds(g, noeud, target, ending_nodes) ==
  IF ending_nodes = <<>> THEN {Ok(g)}
  ELSE IF Head(ending_nodes) \notin NodeSet(g) THEN {Fail(g, "NodeNotFound")}
  ELSE IF has_path(g, noeud, Head(ending_nodes))
  THEN IF target \notin NodeSet(g) THEN {Fail(g, "NodeNotFound")}
       ELSE LET paths == all_simple_paths(g, noeud, target)
            IN UNION {
              OutTipsEnds(
                select_best_path(g, paths, PathLengths(paths), PathSubgraphAvgs(g, paths), FALSE, TRUE, r),
                noeud, target, Tail(ending_nodes)) : r \in 1..Len(paths)}
  ELSE OutTipsEnds(g, noeud, target, Tail(ending_nodes))

\* solve_out_tips, the loop "for noeud in graph.nodes": the loop iterates the
\* graph's own node dict, so the step after any removal raises RuntimeError
\* (dictionary changed size during iteration), the step that would end the
\* loop included.  nodes0 is the node list when the loop starts.
RECURSIVE OutTipsNodes(_, _, _, _)
OutTipsNodes(g, nodes0, i, ending_nodes) ==
  IF Len(g.nodes) # Len(nodes0) THEN {Fail(g, "RuntimeError")}
  ELSE IF i > Len(nodes0) THEN {Ok(g)}
  ELSE LET noeud == nodes0[i]
           liste_successeurs ==
             SelectSeq(Successors(g, noeud), LAMBDA s : s \in Range(ending_nodes))
       IN IF Len(liste_successeurs) > 1
          THEN UNION {
            IF o.err # "" THEN {o} ELSE OutTipsNodes(o.graph, nodes0, i + 1, ending_nodes)
            : o \in OutTipsEnds(g, noeud, liste_successeurs[1], ending_nodes)}
          ELSE OutTipsNodes(g, nodes0, i + 1, ending_nodes)

solve_out_tips(g, ending_nodes) == OutTipsNodes(g, g.nodes, 1, ending_nodes)

\* ------------------------------------------------- graph simplification
\* Graphs are handed to the simplification functions as the callers build
\* them, by add_edge.  Nodes are 1..MaxNodes (standing for distinct non-empty
\* (k-1)-mers), every edge goes from a smaller to a larger node, so the graph
\* is acyclic as nx.lowest_common_ancestor requires, and edges are inserted
\* in increasing order.
\* An edge weight is a k-mer count: a low one or a high one.
Weights == {1, MaxWeight}

\* The nodes in use are 1..n: a graph that skips a number is the same graph,
\* in the same insertion order, as the one with its nodes renumbered in order.
Renumbered(g) == NodeSet(g) = 1..Len(g.nodes)

Init ==
  /\ pc = "build" /\ err = ""
  /\ reads = <<>> /\ kmer_size = 0 /\ kmer_dict = <<>> /\ contigs = <<>>
  /\ graph = EmptyGraph /\ g0 = EmptyGraph /\ op = "none" /\ call = NoCall /\ rounds = 0

LastEdgeBefore(g, u, v) ==
  IF g.edges = <<>> THEN TRUE
  ELSE LET e == g.edges[Len(g.edges)] IN e[1] < u \/ (e[1] = u /\ e[2] < v)

AddEdge ==
  /\ pc = "build"
  /\ Len(graph.edges) < MaxEdges
  /\ \E u, v \in 1..MaxNodes, w \in Weights :
       /\ u < v
       /\ LastEdgeBefore(graph, u, v)
       /\ graph' = add_edge(graph, u, v, w)
  /\ UNCHANGED <<pc, err, reads, kmer_size, kmer_dict, contigs, g0, op, call, rounds>>

\* a direct call select_best_path(graph, paths, lengths, averages, flags) on
\* the simple paths between two nodes, scored as solve_bubble scores them
SelectBestPath ==
  /\ pc = "build"
  /\ Renumbered(graph)
  /\ \E s, t \in NodeSet(graph), den, dsn \in BOOLEAN :
       LET paths == all_simple_paths(graph, s, t)
       IN /\ s # t
          /\ paths # <<>>
          /\ \E r \in 1..Len(paths) :
               /\ graph' = select_best_path(graph, paths, PathLengths(paths),
                                            PathAvgs(graph, paths), den, dsn, r)
               /\ call' = [kind |-> "select_best_path",
                           path_list |-> paths,
                           path_length |-> PathLengths(paths),
                           weight_avg_list |-> PathAvgs(graph, paths),
                           delete_entry_node |-> den,
                           delete_sink_node |-> dsn,
                           choice |->
                             IF Len(paths) = 1 THEN [index |-> 0, tier |-> "single"]
                             ELSE BestPathChoice(PathLengths(paths), PathAvgs(graph, paths), r)]
  /\ g0' = graph
  /\ op' = "select_best_path"
  /\ pc' = "done"
  /\ UNCHANGED <<err, reads, kmer_size, kmer_dict, contigs, rounds>>

\* the outermost call simplify_bubbles(graph)
CallSimplifyBubbles ==
  /\ pc = "build"
  /\ Renumbered(graph)
  /\ pc' = "bubbles"
  /\ op' = "simplify_bubbles"
  /\ g0' = graph
  /\ rounds' = 0
  /\ UNCHANGED <<err, reads, kmer_size, kmer_dict, graph, contigs, call>>

\* one activation of simplify_bubbles: the scan, then either the return or
\* solve_bubble and the recursive call
SimplifyBubbles ==
  /\ pc = "bubbles"
  /\ \E b \in {FindBubble(graph)} :
        \/ /\ ~b.found
           /\ pc' = "done"
           /\ UNCHANGED <<err, graph, call, rounds>>
        \/ /\ b.found
           /\ rounds = MaxDepth
           /\ pc' = "error"
           /\ err' = "RecursionError"
           /\ UNCHANGED <<graph, call, rounds>>
        \/ /\ b.found
           /\ rounds < MaxDepth
           /\ \E a \in b.ancestors :
                LET paths == all_simple_paths(graph, a, b.noeud)
                IN \E r \in 1..Len(paths) :
                     /\ graph' = solve_bubble(graph, a, b.noeud, r)
                     /\ call' = [kind |-> "solve_bubble",
                                 ancestor_node |-> a,
                                 descendant_node |-> b.noeud,
                                 path_list |-> paths,
                                 weight_avg_list |-> PathAvgs(graph, paths),
                                 before |-> graph]
           /\ rounds' = rounds + 1
           /\ UNCHANGED <<pc, err>>
  /\ UNCHANGED <<reads, kmer_size, kmer_dict, contigs, g0, op>>

\* main: solve_entry_tips(graph, get_starting_nodes(graph))
SolveEntryTips ==
  /\ pc = "build"
  /\ Renumbered(graph)
  /\ \E o \in solve_entry_tips(graph, get_starting_nodes(graph)) :
       /\ graph' = o.graph
       /\ err' = o.err
       /\ pc' = IF o.err = "" THEN "done" ELSE "error"
  /\ g0' = graph
  /\ op' = "solve_entry_tips"
  /\ UNCHANGED <<reads, kmer_size, kmer_dict, contigs, call, rounds>>

\* main: solve_out_tips(graph, get_sink_nodes(graph))
SolveOutTips ==
  /\ pc = "build"
  /\ Renumbered(graph)
  /\ \E o \in solve_out_tips(graph, get_sink_nodes(graph)) :
       /\ graph' = o.graph
       /\ err' = o.err
       /\ pc' = IF o.err = "" THEN "done" ELSE "error"
  /\ g0' = graph
  /\ op' = "solve_out_tips"
  /\ UNCHANGED <<reads, kmer_size, kmer_dict, contigs, call, rounds>>

Next ==
  \/ AddEdge
  \/ SelectBestPath
  \/ CallSimplifyBubbles
  \/ SimplifyBubbles
  \/ SolveEntryTips
  \/ SolveOutTips

Spec == Init /\ [][Next]_vars

\* =================================================================== claims

\* ------------------------------------------------------------------ C1
TotalWindows(rs, k) == SeqSum([i \in DOMAIN rs |-> Len(cut_kmer(rs[i], k))])
CountSum(d) == SeqSum([i \in DOMAIN d |-> d[i][2]])
AllWindows(rs, k) == UNION {Range(cut_kmer(rs[i], k)) : i \in DOMAIN rs}
Occurrences(rs, k, x) ==
  Cardinality({ij \in (DOMAIN rs) \X (1..MaxReadLen) :
                 ij[2] \in DOMAIN cut_kmer(rs[ij[1]], k) /\ cut_kmer(rs[ij[1]], k)[ij[2]] = x})

\* C1: the mapping build_kmer_dict returns counts the k-length windows of all
\* the reads: its counts sum to the number of windows over every read, and
\* each k-mer is counted once per occurrence as a window of any read.
C1_CountsAllReads ==
  pc = "counted" =>
    /\ CountSum(kmer_dict) = TotalWindows(reads, kmer_size)
    /\ DictKeys(kmer_dict) = AllWindows(reads, kmer_size)
    /\ \A x \in AllWindows(reads, kmer_size) :
         DictGet(kmer_dict, x) = Occurrences(reads, kmer_size, x)

\* ------------------------------------------------------------------ C2
Prefix(kmer) == SubSeq(kmer, 1, Len(kmer) - 1)
Suffix(kmer) == SubSeq(kmer, 2, Len(kmer))

OneEdgePerKmer(g, d) ==
  /\ Len(g.edges) = Len(d)
  /\ Range(g.edges) = {<<Prefix(d[i][1]), Suffix(d[i][1]), d[i][2]>> : i \in DOMAIN d}
  /\ NodeSet(g) = {Prefix(d[i][1]) : i \in DOMAIN d} \cup {Suffix(d[i][1]) : i \in DOMAIN d}
  /\ Len(g.nodes) = Cardinality(NodeSet(g))

\* C2 as stated, for every k >= 1: build_graph returns exactly one edge per
\* k-mer, from its first k-1 to its last k-1 characters, weighted by its
\* count, and the nodes are exactly the prefixes and suffixes.
C2_OneEdgePerKmerAnyK ==
  pc = "graph" => OneEdgePerKmer(graph, kmer_dict)

\* C2 amended, for k >= 2: build_graph returns exactly one edge per k-mer,
\* from its first k-1 to its last k-1 characters, weighted by its count, and
\* the nodes are exactly the prefixes and suffixes.
C2_OneEdgePerKmer ==
  (pc = "graph" /\ kmer_size >= 2) => OneEdgePerKmer(graph, kmer_dict)

C2_Witness ==
  /\ pc = "graph"
  /\ kmer_size >= 2
  /\ Len(kmer_dict) >= 2
  /\ \E i \in DOMAIN kmer_dict : kmer_dict[i][2] >= 2
  /\ OneEdgePerKmer(graph, kmer_dict)

\* ------------------------------------------------------------------ C7
\* S has no repeated (k-1)-mer: its windows of length k-1 are pairwise distinct
NoRepeatedNode(S, k) ==
  \A i, j \in DOMAIN cut_kmer(S, k - 1) :
    cut_kmer(S, k - 1)[i] = cut_kmer(S, k - 1)[j] => i = j

IsSimplePath(g, p) ==
  /\ Len(p) >= 1
  /\ \A i \in DOMAIN p : p[i] \in NodeSet(g)
  /\ \A i, j \in DOMAIN p : p[i] = p[j] => i = j
  /\ \A i \in 1..(Len(p) - 1) : HasEdge(g, p[i], p[i + 1])

SpellsPath(c, p) ==
  /\ Len(c) = Len(p[1]) + Len(p) - 1
  /\ SubSeq(c, 1, Len(p[1])) = p[1]
  /\ \A i \in 2..Len(p) : c[Len(p[1]) + i - 1] = p[i][Len(p[i])]

LinearChainOf(g, S, k) ==
  /\ Len(g.nodes) = Len(S) - k + 2
  /\ \A n \in NodeSet(g) : Len(Successors(g, n)) <= 1 /\ Len(Predecessors(g, n)) <= 1

\* C7: for a sequence S of length >= k without repeated (k-1)-mer, the graph
\* build_graph makes of the k-mers of S is a linear chain and get_contigs on
\* its starting and sink nodes returns exactly one contig, S with len(S); and
\* every contig get_contigs returns spells a simple path from a starting node
\* to a sink node: the first node, then the last character of each next node.
C7_ContigRoundTrip ==
  pc = "contigs" =>
    /\ (Len(reads[1]) >= kmer_size /\ NoRepeatedNode(reads[1], kmer_size)) =>
         /\ LinearChainOf(graph, reads[1], kmer_size)
         /\ contigs = << <<reads[1], Len(reads[1])>> >>
    /\ \A c \in Range(contigs) :
         /\ c[2] = Len(c[1])
         /\ \E s \in Range(get_starting_nodes(graph)), e \in Range(get_sink_nodes(graph)) :
              \E p \in Range(all_simple_paths(graph, s, e)) :
                IsSimplePath(graph, p) /\ p[1] = s /\ p[Len(p)] = e /\ SpellsPath(c[1], p)

C7_Witness ==
  /\ pc = "contigs"
  /\ Len(reads[1]) > kmer_size
  /\ NoRepeatedNode(reads[1], kmer_size)
  /\ Len(graph.edges) >= 2
  /\ contigs = << <<reads[1], Len(reads[1])>> >>

\* ------------------------------------------------------------------ C3
PathKept(g, p) ==
  /\ \A i \in DOMAIN p : p[i] \in NodeSet(g)
  /\ \A i \in 1..(Len(p) - 1) : HasEdge(g, p[i], p[i + 1])

PairwiseDistinct(xs) == \A i, j \in DOMAIN xs : i # j => ~RatEq(xs[i], xs[j])

StrictMaxIndex(xs) == CHOOSE i \in DOMAIN xs : \A j \in DOMAIN xs : j # i => RatLt(xs[j], xs[i])

LoserNodes(paths, best, den, dsn) ==
  UNION {{paths[i][j] : j \in ((IF den THEN 1 ELSE 2)..(IF dsn THEN Len(paths[i]) ELSE Len(paths[i]) - 1))}
         : i \in DOMAIN paths \ {best}}

\* C3: select_best_path on two or more paths of pairwise distinct average
\* weight keeps the path of strictly maximum average weight, every node and
\* edge of it, and removes exactly the nodes of the other paths minus their
\* first node unless delete_entry_node and their last unless delete_sink_node.
C3_WinnerKept ==
  (op = "select_best_path" /\ Len(call.path_list) >= 2
     /\ PairwiseDistinct(call.weight_avg_list)) =>
    /\ PathKept(graph, call.path_list[StrictMaxIndex(call.weight_avg_list)])
    /\ NodeSet(g0) \ NodeSet(graph) =
         LoserNodes(call.path_list, StrictMaxIndex(call.weight_avg_list),
                    call.delete_entry_node, call.delete_sink_node)

\* ------------------------------------------------------------------ C4
\* C4: simplify_bubbles terminates: every round that resolves a bubble leaves
\* fewer nodes than it found, the rounds number at most the nodes of the
\* input graph, and the recursion never runs out of depth.
C4_EachRoundShrinks ==
  (op = "simplify_bubbles" /\ call.kind = "solve_bubble") =>
    /\ Len(graph.nodes) < Len(call.before.nodes)
    /\ rounds <= Len(g0.nodes)
    /\ err # "RecursionError"

\* ------------------------------------------------------------------ C5
Interior(p) == {p[i] : i \in 2..(Len(p) - 1)}
PathEdges(p) == {<<p[i], p[i + 1]>> : i \in 1..(Len(p) - 1)}

\* g is one bubble from a to d: exactly two simple paths lead from a to d,
\* they meet only in a and d, and every node and edge of g lies on one of them
SingleBubble(g, a, d) ==
  LET ps == all_simple_paths(g, a, d)
  IN /\ Len(ps) = 2
     /\ Interior(ps[1]) \cap Interior(ps[2]) = {}
     /\ NodeSet(g) = Range(ps[1]) \cup Range(ps[2])
     /\ EdgeSet(g) = PathEdges(ps[1]) \cup PathEdges(ps[2])
     /\ ~RatEq(PathAvg(g, ps[1]), PathAvg(g, ps[2]))

BubbleResolved(g, before, a, d) ==
  LET ps == all_simple_paths(before, a, d)
      hi == IF RatLt(PathAvg(before, ps[1]), PathAvg(before, ps[2])) THEN 2 ELSE 1
  IN /\ a \in NodeSet(g) /\ d \in NodeSet(g)
     /\ PathKept(g, ps[hi])
     /\ Interior(ps[3 - hi]) \cap NodeSet(g) = {}
     /\ ~PathKept(g, ps[3 - hi])

\* C5: simplify_bubbles on a single bubble of two alternate paths of different
\* average weight returns a graph with the ancestor, the descendant and exactly
\* one of the two paths: the heavier one whole, the other one gone.
C5_SingleBubbleResolved ==
  (op = "simplify_bubbles" /\ pc \in {"done", "error"}) =>
    \A a, d \in NodeSet(g0) :
      (a # d /\ SingleBubble(g0, a, d)) => (pc = "done" /\ BubbleResolved(graph, g0, a, d))

\* What does hold of the code: the same, for the bubbles whose two paths
\* both have an interior node.
SingleBubbleWithInteriorsResolved ==
  (op = "simplify_bubbles" /\ pc \in {"done", "error"}) =>
    \A a, d \in NodeSet(g0) :
      (a # d /\ SingleBubble(g0, a, d) /\ ~HasEdge(g0, a, d))
        => (pc = "done" /\ BubbleResolved(graph, g0, a, d))

\* ------------------------------------------------------------------ C6
IsChain(g) ==
  /\ Len(g.nodes) >= 2
  /\ Len(g.edges) = Len(g.nodes) - 1
  /\ Len(get_starting_nodes(g)) = 1
  /\ \A n \in NodeSet(g) : Len(Successors(g, n)) <= 1 /\ Len(Predecessors(g, n)) <= 1

\* g is a main path plus the entry tip t1 -> t2 that merges into it: t1 is an
\* entry node of its own, t2 follows it alone and leads into the main path,
\* and the two edges of the tip weigh less than every edge of the main path
EntryTip(g, t1, t2) ==
  /\ t1 # t2
  /\ Predecessors(g, t1) = <<>>
  /\ Successors(g, t1) = <<t2>>
  /\ Predecessors(g, t2) = <<t1>>
  /\ Len(Successors(g, t2)) = 1
  /\ IsChain(remove_nodes_from(g, {t1, t2}))
  /\ Len(Predecessors(g, Successors(g, t2)[1])) = 2
  /\ \A e \in Range(g.edges) : e[1] \notin {t1, t2} => e[3] > Weight(g, t1, t2)
  /\ \A e \in Range(g.edges) : e[1] = t2 => e[3] = Weight(g, t1, t2)

\* C6: solve_entry_tips(graph, get_starting_nodes(graph)) removes an entry tip
\* of two nodes and leaves every node and edge of the main path in place.
C6_EntryTipRemoved ==
  (op = "solve_entry_tips" /\ pc = "done") =>
    \A t1, t2 \in NodeSet(g0) :
      EntryTip(g0, t1, t2) => graph = remove_nodes_from(g0, {t1, t2})

\* What the code does with the starting nodes of the graph: nothing.
EntryTipsChangeNothing ==
  op = "solve_entry_tips" => (pc = "done" /\ graph = g0)

\* ------------------------------------------------------------------ C8
ExitSuccessors(g, n, ending) == {s \in Range(Successors(g, n)) : s \in ending}

\* C8: after solve_out_tips(graph, get_sink_nodes(graph)) every node that had
\* two or more exit nodes among its successors is still in the graph and has
\* exactly one of them left.
C8_ExitTipsRemoved ==
  (op = "solve_out_tips" /\ pc \in {"done", "error"}) =>
    \A n \in NodeSet(g0) :
      Cardinality(ExitSuccessors(g0, n, Range(get_sink_nodes(g0)))) >= 2 =>
        /\ pc = "done"
        /\ n \in NodeSet(graph)
        /\ Cardinality(ExitSuccessors(graph, n, Range(get_sink_nodes(g0)))) = 1

\* What the code does: it returns the graph as it was, or raises.
OutTipsChangeNothing ==
  (op = "solve_out_tips" /\ pc = "done") => graph = g0

\* ------------------------------------------------------------------ C9
\* C9: after every solve_bubble(graph, a, d) of simplify_bubbles the ancestor
\* a and the convergence node d are still nodes of the graph.
C9_AnchorsSurvive ==
  (op = "simplify_bubbles" /\ call.kind = "solve_bubble") =>
    /\ call.ancestor_node \in NodeSet(graph)
    /\ call.descendant_node \in NodeSet(graph)

C9_Witness ==
  /\ op = "simplify_bubbles"
  /\ call.kind = "solve_bubble"
  /\ Len(call.path_list) >= 2
  /\ Len(graph.nodes) < Len(call.before.nodes)
  /\ call.ancestor_node \in NodeSet(graph)
  /\ call.descendant_node \in NodeSet(graph)

\* ----------------------------------------------------------------- C10
AllEqual(xs) == \A i, j \in DOMAIN xs : RatEq(xs[i], xs[j])

FirstOfMax(xs, b) ==
  /\ b \in DOMAIN xs
  /\ \A j \in DOMAIN xs : ~RatLt(xs[b], xs[j])
  /\ \A j \in 1..(b - 1) : RatLt(xs[j], xs[b])

\* C10: select_best_path applies its tiers in order: the first index of
\* maximum average weight whenever the averages are not all equal; the first
\* index of maximum length only when they are and the lengths are not; a
\* random draw only when both are all equal; one path alone changes nothing.
C10_TierOrder ==
  op = "select_best_path" =>
    LET ws == call.weight_avg_list
        ls == AsRats(call.path_length)
        b == call.choice.index
        tier == call.choice.tier
    IN /\ Len(call.path_list) = 1 => (graph = g0 /\ tier = "single")
       /\ (Len(call.path_list) >= 2 /\ ~AllEqual(ws)) =>
            (tier = "weight" /\ FirstOfMax(ws, b))
       /\ (Len(call.path_list) >= 2 /\ AllEqual(ws) /\ ~AllEqual(ls)) =>
            (tier = "length" /\ FirstOfMax(ls, b))
       /\ (Len(call.path_list) >= 2 /\ AllEqual(ws) /\ AllEqual(ls)) =>
            (tier = "random" /\ b \in DOMAIN call.path_list)
       /\ Len(call.path_list) >= 2 =>
            NodeSet(g0) \ NodeSet(graph) =
              LoserNodes(call.path_list, b, call.delete_entry_node, call.delete_sink_node)

C10_Witness ==
  /\ op = "select_best_path"
  /\ call.choice.tier = "weight"
  /\ \E j \in DOMAIN call.path_list :
       call.path_length[j] > call.path_length[call.choice.index]
  /\ FirstOfMax(call.weight_avg_list, call.choice.index)

====
